---- MODULE Spec2Model ----
(***************************************************************************)
(* bevy-jam-5: the bounded volume settings (src/lib.rs) and the settings   *)
(* screen that adjusts them (src/screen/settings.rs).                      *)
(*                                                                         *)
(* Two specifications:                                                     *)
(*   SpecBounded  BoundedU8<MIN, MAX> and the LevelSetting trait as pure   *)
(*                functions, over bound pairs and bytes drawn in Init.     *)
(*   Spec         the application: App::new(), AppPlugin::build, and the   *)
(*                frames of the Update schedule on the Title and Settings  *)
(*                screens.                                                 *)
(***************************************************************************)
EXTENDS Integers, Sequences, FiniteSets, TLC

VARIABLES
    \* ---- SpecBounded: one BoundedU8<MIN, MAX> / LevelSetting under test
    lo,              \* const MIN of the type under test
    hi,              \* const MAX of the type under test
    bv,              \* the instance's raw byte (field .0), NoValue when there is none
    last,            \* the last call: [op, arg, pre, err, out]
    \* ---- Spec: the application
    app,             \* "new" | "running" | "panicked"
    settings,        \* Res<GameSettings>: the three raw levels
    global_volume,   \* Res<GlobalVolume>.volume, an f32 kept as a fraction
    screen,          \* State<Screen>
    next_screen,     \* NextState<Screen>
    text,            \* the Text of the entity with VolumeDisplayMarker
    interaction,     \* the press Bevy's UI reports for this frame
    ran              \* the nodes of the Update schedule that ran this frame

boundedVars == <<lo, hi, bv, last>>
appVars == <<app, settings, global_volume, screen, next_screen, text, interaction, ran>>
vars == <<lo, hi, bv, last, app, settings, global_volume, screen, next_screen, text,
          interaction, ran>>

(***************************************************************************)
(* Bounds of the model and constants of the program                        *)
(***************************************************************************)
\* u8::MAX, the width of the field of BoundedU8
U8MAX == 255
\* how many bytes next to 0 and next to 255 the bound pairs and deltas are drawn from
EdgeWidth == 2
\* VolumeSetting(BoundedU8<0, 10>)
VolumeMIN == 0
VolumeMAX == 10
\* const MAX_VOLUME: f32 = 0.35, in hundredths
MAX_VOLUME_PCT == 35

\* what stands where there is no byte
NoValue == 0 - 1

(***************************************************************************)
(* u8 arithmetic of the standard library, as far as the code uses it       *)
(***************************************************************************)
\* a bug a byte addition invites: wrap around instead of saturating
wrapping_add(a, b) == (a + b) % (U8MAX + 1)
saturating_add(a, b) == IF a + b > U8MAX THEN U8MAX ELSE a + b

wrapping_sub(a, b) == (a - b) % (U8MAX + 1)
saturating_sub(a, b) == IF a - b < 0 THEN 0 ELSE a - b

u8_min(a, b) == IF a <= b THEN a ELSE b
u8_max(a, b) == IF a >= b THEN a ELSE b

(***************************************************************************)
(* Results of calls that may panic                                         *)
(***************************************************************************)
Ok(raw) == [ok |-> TRUE, raw |-> raw, err |-> "none"]
Panic(e) == [ok |-> FALSE, raw |-> NoValue, err |-> e]

(***************************************************************************)
(* BoundedU8<MIN, MAX>                                                     *)
(***************************************************************************)
\* impl Add<u8>: Self(self.saturating_add(rhs).min(Self::MAX))
BoundedU8_add(MIN, MAX, raw, rhs) == u8_min(saturating_add(raw, rhs), MAX)

\* impl Sub<u8>: Self(self.saturating_sub(rhs).max(Self::MIN))
BoundedU8_sub(MIN, MAX, raw, rhs) == u8_max(saturating_sub(raw, rhs), MIN)

\* impl From<u8>: assert!((A..=B).contains(&value)); Self(value)
BoundedU8_from(MIN, MAX, value) ==
    IF MIN <= value /\ value <= MAX THEN Ok(value) ELSE Panic("OutOfRange")

\* #[derive(Deserialize)] on the tuple struct: the byte is taken as it is read,
\* no bound is looked at
BoundedU8_deserialize(MIN, MAX, byte) == Ok(byte)

(***************************************************************************)
(* trait LevelSetting                                                      *)
(***************************************************************************)
\* const DIFF: u8 = Self::MAX - Self::MIN
DIFF(MIN, MAX) == MAX - MIN

\* fn from_raw(value: u8) -> Self, as VolumeSetting implements it: Self(value.into())
from_raw(MIN, MAX, value) == BoundedU8_from(MIN, MAX, value)

\* a bug: the offset from MIN is forgotten
from_divisor_added_no_min(MIN, MAX, divisor) ==
    IF divisor = 0 THEN Panic("ZeroDivisor")
    ELSE from_raw(MIN, MAX, DIFF(MIN, MAX) \div divisor)
\* assert_ne!(divisor, 0); from_raw(DIFF / divisor + MIN); the u8 addition is checked
from_divisor_added(MIN, MAX, divisor) ==
    IF divisor = 0 THEN Panic("ZeroDivisor")
    ELSE LET diff_proportion == DIFF(MIN, MAX) \div divisor
         IN  IF diff_proportion + MIN > U8MAX THEN Panic("Overflow")
             ELSE from_raw(MIN, MAX, diff_proportion + MIN)

\* a bug: the proportion itself is returned instead of MAX less the proportion
from_divisor_removed_no_max(MIN, MAX, divisor) ==
    IF divisor = 0 THEN Panic("ZeroDivisor")
    ELSE from_raw(MIN, MAX, DIFF(MIN, MAX) \div divisor)
\* assert_ne!(divisor, 0); from_raw(MAX - DIFF / divisor); the u8 subtraction is checked
from_divisor_removed(MIN, MAX, divisor) ==
    IF divisor = 0 THEN Panic("ZeroDivisor")
    ELSE LET diff_proportion == DIFF(MIN, MAX) \div divisor
         IN  IF MAX - diff_proportion < 0 THEN Panic("Overflow")
             ELSE from_raw(MIN, MAX, MAX - diff_proportion)

\* fn from_max() -> Self
from_max(MIN, MAX) == from_raw(MIN, MAX, MAX)

\* An f32 that is the quotient of two small integers is kept as that quotient:
\* u8 -> f32 is exact, and the one rounding of the division is monotone and
\* leaves 0 and 1 alone. 0.0 / 0.0 is NaN.
F32(num, den) == [nan |-> FALSE, num |-> num, den |-> den]
NaN == [nan |-> TRUE, num |-> 0, den |-> 0]

\* a bug: the raw byte itself is divided, MIN is not taken off
fraction_no_min(MIN, MAX, raw) ==
    IF DIFF(MIN, MAX) = 0 THEN NaN ELSE F32(raw, DIFF(MIN, MAX))
\* (*self - Self::MIN) as f32 / Self::DIFF as f32, for MIN <= raw
fraction(MIN, MAX, raw) ==
    IF DIFF(MIN, MAX) = 0 THEN NaN ELSE F32(raw - MIN, DIFF(MIN, MAX))

\* format!("{:.N}", f * scale): the decimal expansion to `digits` places, the
\* last place rounded to nearest, ties to even
RECURSIVE Pow10(_)
Pow10(k) == IF k = 0 THEN 1 ELSE 10 * Pow10(k - 1)

RECURSIVE Digits(_, _)
Digits(n, k) == IF k = 0 THEN "" ELSE Digits(n \div 10, k - 1) \o ToString(n % 10)

RoundHalfEven(num, den) ==
    LET q == num \div den
        r == num % den
    IN  IF 2 * r > den \/ (2 * r = den /\ q % 2 = 1) THEN q + 1 ELSE q

FormatFixed(f, scale, digits) ==
    IF f.nan THEN "NaN"
    ELSE LET units == RoundHalfEven(f.num * scale * Pow10(digits), f.den)
         IN  ToString(units \div Pow10(digits)) \o "." \o Digits(units % Pow10(digits), digits)

\* format!("{:.1}%", self.fraction() * 100f32)
percent_display(MIN, MAX, raw) == FormatFixed(fraction(MIN, MAX, raw), 100, 1) \o "%"

(***************************************************************************)
(* SpecBounded: the pure functions, applied to inputs drawn from bounded   *)
(* sets: the bytes at both ends of u8, and the bound of VolumeSetting      *)
(***************************************************************************)
EdgeBytes == (0..EdgeWidth) \cup {VolumeMAX} \cup ((U8MAX - EdgeWidth)..U8MAX)

NoF32 == [nan |-> FALSE, num |-> NoValue, den |-> NoValue]
NoCall == [op |-> "none", arg |-> NoValue, pre |-> NoValue, err |-> "none", out |-> NoF32]
Call(op, arg, pre, err, out) == [op |-> op, arg |-> arg, pre |-> pre, err |-> err, out |-> out]

\* The constructors: the instance is the value made, or there is none when the
\* constructor panicked
FromRaw(v) ==
    /\ LET r == from_raw(lo, hi, v)
       IN  /\ bv' = r.raw
           /\ last' = Call("from_raw", v, NoValue, r.err, NoF32)
    /\ UNCHANGED <<lo, hi>>
    /\ UNCHANGED appVars

Deserialize(byte) ==
    /\ LET r == BoundedU8_deserialize(lo, hi, byte)
       IN  /\ bv' = r.raw
           /\ last' = Call("deserialize", byte, NoValue, r.err, NoF32)
    /\ UNCHANGED <<lo, hi>>
    /\ UNCHANGED appVars

FromDivisorAdded(d) ==
    /\ LET r == from_divisor_added(lo, hi, d)
       IN  /\ bv' = r.raw
           /\ last' = Call("from_divisor_added", d, NoValue, r.err, NoF32)
    /\ UNCHANGED <<lo, hi>>
    /\ UNCHANGED appVars

FromDivisorRemoved(d) ==
    /\ LET r == from_divisor_removed(lo, hi, d)
       IN  /\ bv' = r.raw
           /\ last' = Call("from_divisor_removed", d, NoValue, r.err, NoF32)
    /\ UNCHANGED <<lo, hi>>
    /\ UNCHANGED appVars

FromMax ==
    /\ LET r == from_max(lo, hi)
       IN  /\ bv' = r.raw
           /\ last' = Call("from_max", NoValue, NoValue, r.err, NoF32)
    /\ UNCHANGED <<lo, hi>>
    /\ UNCHANGED appVars

Add(delta) ==
    /\ bv # NoValue
    /\ bv' = BoundedU8_add(lo, hi, bv, delta)
    /\ last' = Call("add", delta, bv, "none", NoF32)
    /\ UNCHANGED <<lo, hi>>
    /\ UNCHANGED appVars

Sub(delta) ==
    /\ bv # NoValue
    /\ bv' = BoundedU8_sub(lo, hi, bv, delta)
    /\ last' = Call("sub", delta, bv, "none", NoF32)
    /\ UNCHANGED <<lo, hi>>
    /\ UNCHANGED appVars

\* fraction() of an instance below MIN (only a deserialized one) subtracts with
\* underflow: a panic where overflow checks are on, the wrapped byte where not
Fraction ==
    /\ bv # NoValue
    /\ \E r \in IF bv >= lo
                THEN {[err |-> "none", out |-> fraction(lo, hi, bv)]}
                ELSE {[err |-> "Overflow", out |-> NoF32],
                      [err |-> "none",
                       out |-> IF DIFF(lo, hi) = 0 THEN NaN
                               ELSE F32(wrapping_sub(bv, lo), DIFF(lo, hi))]} :
          last' = Call("fraction", NoValue, bv, r.err, r.out)
    /\ UNCHANGED <<lo, hi, bv>>
    /\ UNCHANGED appVars

(***************************************************************************)
(* Spec: the application                                                   *)
(***************************************************************************)
NoText == "<no text>"
NoSettings ==
    [global_volume_level |-> NoValue,
     soundtrack_volume_level_relative |-> NoValue,
     sfx_volume_level_relative |-> NoValue]

\* the scopes an adjustment can name, and the field of GameSettings each names
Scopes == {"Global", "Soundtrack", "Sfx"}
Level(s, scope) ==
    CASE scope = "Global" -> s.global_volume_level
      [] scope = "Soundtrack" -> s.soundtrack_volume_level_relative
      [] scope = "Sfx" -> s.sfx_volume_level_relative

\* enum BinaryAdjustment / enum VolumeAction
Adjustments == {"Up", "Down"}

\* What Bevy's UI reports for a frame: nothing, a press of the Back button, or a
\* press that asks for an adjustment of a scope (LevelSettingAction<S>).
NoIntent == [kind |-> "None", adjustment |-> "None", scope |-> "None"]
BackPress == [kind |-> "Back", adjustment |-> "None", scope |-> "None"]
VolumePress(a, sc) == [kind |-> "Volume", adjustment |-> a, scope |-> sc]
Presses == {BackPress} \cup {VolumePress(a, sc) : a \in Adjustments, sc \in Scopes}

\* enum AppSet, in the order configure_sets chains them
AppSet == <<"TickTimers", "RecordInput", "Update">>
AppSets == {AppSet[i] : i \in 1..Len(AppSet)}
\* the systems the settings screen adds to the Update schedule
Systems == {"handle_volume_action", "handle_settings_action"}
Nodes == AppSets \cup Systems

\* use crate::VOLUME_INCREMENTS: the number of steps of the volume level, the
\* range of BoundedU8<0, 10>
VOLUME_INCREMENTS == DIFF(VolumeMIN, VolumeMAX)

\* value.fraction() * MAX_VOLUME, and MAX_VOLUME * level_to_fraction(level): one
\* f32 product, in either order of its factors
ScaleByMaxVolume(f) ==
    IF f.nan THEN NaN ELSE F32(f.num * MAX_VOLUME_PCT, f.den * 100)

\* impl From<&VolumeSetting> for Volume
VolumeFrom(raw) == ScaleByMaxVolume(fraction(VolumeMIN, VolumeMAX, raw))

\* fn level_to_fraction(level: u8) -> f32
level_to_fraction(level) == F32(level, VOLUME_INCREMENTS)

\* fn volume_level_to_display(level: u8) -> String: format!("{:.3}", ...)
volume_level_to_display(level) == FormatFixed(level_to_fraction(level), 1, 3)

\* a bug: the upper clamp is left out
volume_level_unclamped(action, level) ==
    IF action = "Up" THEN saturating_add(level, 1) ELSE saturating_sub(level, 1)
\* the match of handle_volume_action: the level after one VolumeAction
volume_level_after(action, level) ==
    IF action = "Up" THEN u8_min(saturating_add(level, 1), VOLUME_INCREMENTS)
    ELSE saturating_sub(level, 1)

\* a bug: the gain is left out
volume_unscaled(level) == level_to_fraction(level)
\* Volume::new(MAX_VOLUME * level_to_fraction(settings.volume_level))
volume_applied(level) == ScaleByMaxVolume(level_to_fraction(level))

\* InteractionQuery<&VolumeAction>: the entities that carry a VolumeAction are the
\* two buttons enter_settings spawns under the "Global Volume" label; a press
\* that names another scope is on no entity of this query
button_query_matches(i) == i.kind = "Volume" /\ i.scope = "Global"

\* App::new()
AppInit ==
    /\ app = "new"
    /\ settings = NoSettings
    /\ global_volume = NoF32
    /\ screen = "None"
    /\ next_screen = "None"
    /\ text = NoText
    /\ interaction = NoIntent
    /\ ran = Nodes

BoundedIdle ==
    /\ lo = VolumeMIN
    /\ hi = VolumeMAX
    /\ bv = NoValue
    /\ last = NoCall

Init == BoundedIdle /\ AppInit

\* AppPlugin::build: the settings, the volume the audio plugin starts with, the
\* resource. The first screen shown here is the title screen.
Build ==
    /\ app = "new"
    /\ LET g == from_divisor_added(VolumeMIN, VolumeMAX, 2)
           st == from_divisor_removed(VolumeMIN, VolumeMAX, DIFF(VolumeMIN, VolumeMAX))
           sfx == from_divisor_removed(VolumeMIN, VolumeMAX, DIFF(VolumeMIN, VolumeMAX) \div 2)
       IN  IF g.ok /\ st.ok /\ sfx.ok
           THEN /\ app' = "running"
                /\ settings' = [global_volume_level |-> g.raw,
                                soundtrack_volume_level_relative |-> st.raw,
                                sfx_volume_level_relative |-> sfx.raw]
                /\ global_volume' = VolumeFrom(g.raw)
                /\ screen' = "Title"
           ELSE /\ app' = "panicked"
                /\ UNCHANGED <<settings, global_volume, screen>>
    /\ UNCHANGED <<next_screen, text, interaction, ran>>
    /\ UNCHANGED boundedVars

\* fn enter_settings: the one text with VolumeDisplayMarker
enter_settings(s) == volume_level_to_display(s.global_volume_level)

\* A frame starts: the state transition queued in NextState is applied
\* (OnEnter(Screen::Settings) runs enter_settings, StateScoped despawns the
\* settings UI on leaving), the UI reports at most one press of a button that
\* was there when input was read, and the Update schedule starts over.
BeginFrame ==
    /\ app = "running"
    /\ ran = Nodes
    /\ LET to == IF next_screen = "None" THEN screen ELSE next_screen
       IN  /\ screen' = to
           /\ text' = IF to = screen THEN text
                      ELSE IF to = "Settings" THEN enter_settings(settings)
                      ELSE NoText
           /\ \E i \in {NoIntent} \cup Presses :
                 /\ i # NoIntent => (screen = "Settings" /\ to = "Settings")
                 /\ interaction' = i
    /\ next_screen' = "None"
    /\ ran' = {}
    /\ UNCHANGED <<app, settings, global_volume>>
    /\ UNCHANGED boundedVars

\* The title screen's button that opens the settings screen
open_settings ==
    /\ app = "running"
    /\ screen = "Title"
    /\ ran # Nodes
    /\ next_screen = "None"
    /\ next_screen' = "Settings"
    /\ UNCHANGED <<app, settings, global_volume, screen, text, interaction, ran>>
    /\ UNCHANGED boundedVars

\* (AppSet::TickTimers, AppSet::RecordInput, AppSet::Update).chain(): a set runs
\* once the sets before it have run. No system of these files is in a set.
RunSet(k) ==
    /\ app = "running"
    /\ AppSet[k] \notin ran
    /\ \A j \in 1..(k - 1) : AppSet[j] \in ran
    /\ ran' = ran \cup {AppSet[k]}
    /\ UNCHANGED <<app, settings, global_volume, screen, next_screen, text, interaction>>
    /\ UNCHANGED boundedVars

\* fn handle_volume_action, added to Update with run_if(in_state(Screen::Settings))
\* and in no AppSet: it runs once a frame, at any point of the schedule.
\* settings.volume_level, the level it writes, displays and hands to
\* GlobalVolume, is the field GameSettings names global_volume_level.
handle_volume_action ==
    /\ app = "running"
    /\ "handle_volume_action" \notin ran
    /\ ran' = ran \cup {"handle_volume_action"}
    /\ IF screen = "Settings" /\ button_query_matches(interaction)
       THEN LET level == volume_level_after(interaction.adjustment,
                                            settings.global_volume_level)
            IN  IF text = NoText
                THEN \* get_single_mut().unwrap() with no display
                     /\ app' = "panicked"
                     /\ settings' = [settings EXCEPT !.global_volume_level = level]
                     /\ UNCHANGED <<text, global_volume>>
                ELSE /\ settings' = [settings EXCEPT !.global_volume_level = level]
                     /\ text' = volume_level_to_display(level)
                     /\ global_volume' = volume_applied(level)
                     /\ app' = app
       ELSE UNCHANGED <<app, settings, text, global_volume>>
    /\ UNCHANGED <<screen, next_screen, interaction>>
    /\ UNCHANGED boundedVars

\* fn handle_settings_action, likewise in no AppSet
handle_settings_action ==
    /\ app = "running"
    /\ "handle_settings_action" \notin ran
    /\ ran' = ran \cup {"handle_settings_action"}
    /\ next_screen' = IF screen = "Settings" /\ interaction.kind = "Back"
                      THEN "Title" ELSE next_screen
    /\ UNCHANGED <<app, settings, global_volume, screen, text, interaction>>
    /\ UNCHANGED boundedVars

Next ==
    \/ Build
    \/ BeginFrame
    \/ open_settings
    \/ \E k \in 1..Len(AppSet) : RunSet(k)
    \/ handle_volume_action
    \/ handle_settings_action

Spec == Init /\ [][Next]_vars

InitBounded ==
    /\ lo \in EdgeBytes
    /\ hi \in EdgeBytes
    /\ lo <= hi
    /\ bv = NoValue
    /\ last = NoCall
    /\ AppInit

NextBounded ==
    \/ \E v \in EdgeBytes : FromRaw(v)
    \/ \E b \in EdgeBytes : Deserialize(b)
    \/ \E d \in EdgeBytes : FromDivisorAdded(d)
    \/ \E d \in EdgeBytes : FromDivisorRemoved(d)
    \/ FromMax
    \/ \E delta \in EdgeBytes : Add(delta)
    \/ \E delta \in EdgeBytes : Sub(delta)
    \/ Fraction

SpecBounded == InitBounded /\ [][NextBounded]_vars

(***************************************************************************)
(* Properties of BoundedU8 and LevelSetting, under SpecBounded             *)
(***************************************************************************)
InRange(v) == lo <= v /\ v <= hi

\* C1: every instance, however it was made and whatever add and sub were applied
\* to it, has MIN <= raw <= MAX.
C1_BoundedInvariant == bv # NoValue => InRange(bv)

\* C2: on an in-range raw, add(delta) is exactly min(raw + delta, MAX) and
\* sub(delta) exactly max(raw - delta, MIN), in unbounded arithmetic, and neither
\* fails.
C2_SaturatingArithmetic ==
    /\ (last.op = "add" /\ InRange(last.pre)) =>
          /\ bv = (IF last.pre + last.arg <= hi THEN last.pre + last.arg ELSE hi)
          /\ last.err = "none"
    /\ (last.op = "sub" /\ InRange(last.pre)) =>
          /\ bv = (IF last.pre - last.arg >= lo THEN last.pre - last.arg ELSE lo)
          /\ last.err = "none"

\* an addition whose byte sum passes 255 was applied to an in-range raw
C2_Witness ==
    /\ last.op = "add"
    /\ InRange(last.pre)
    /\ last.pre + last.arg > U8MAX
    /\ bv = hi

\* C3: for MIN < MAX, a divisor of 0 makes both divisor constructors fail with
\* ZeroDivisor and make no value; a divisor d >= 1 makes raw = MIN + (DIFF div d),
\* respectively MAX - (DIFF div d), in range, and from_raw's assertion does not fire.
C3_DivisorConstructors ==
    lo < hi =>
       /\ last.op = "from_divisor_added" =>
             IF last.arg = 0
             THEN last.err = "ZeroDivisor" /\ bv = NoValue
             ELSE /\ last.err = "none"
                  /\ bv = lo + ((hi - lo) \div last.arg)
                  /\ InRange(bv)
       /\ last.op = "from_divisor_removed" =>
             IF last.arg = 0
             THEN last.err = "ZeroDivisor" /\ bv = NoValue
             ELSE /\ last.err = "none"
                  /\ bv = hi - ((hi - lo) \div last.arg)
                  /\ InRange(bv)

\* a divisor of 2 or more put a level strictly between bounds that do not start at 0
C3_Witness ==
    /\ 0 < lo
    /\ lo < hi
    /\ last.op = "from_divisor_added"
    /\ last.arg >= 2
    /\ lo < bv
    /\ bv < hi

\* fraction() of an in-range raw is a number, (raw - MIN) / DIFF, within [0, 1]
FractionDefined ==
    /\ last.err = "none"
    /\ ~last.out.nan
    /\ last.out.den > 0
    /\ last.out.num * (hi - lo) = (last.pre - lo) * last.out.den
    /\ 0 <= last.out.num
    /\ last.out.num <= last.out.den

\* C8 as stated: for all bounds MIN <= MAX, MIN = MAX among them, and every raw
\* in [MIN, MAX], fraction() is defined, equals (raw - MIN) / DIFF and lies in [0, 1].
C8_FractionAllBounds ==
    (last.op = "fraction" /\ lo <= hi /\ InRange(last.pre)) => FractionDefined

\* C8, amended: the same for all bounds MIN < MAX.
C8_FractionProperBounds ==
    (last.op = "fraction" /\ lo < hi /\ InRange(last.pre)) => FractionDefined

\* fraction() was taken of a raw strictly inside bounds that do not start at 0
C8_Witness ==
    /\ last.op = "fraction"
    /\ 0 < lo
    /\ lo < last.pre
    /\ last.pre < hi
    /\ 0 < last.out.num
    /\ last.out.num < last.out.den

(***************************************************************************)
(* Properties of the application, under Spec                               *)
(***************************************************************************)
\* the level settings of VolumeSetting
VolumeAdd(raw) == BoundedU8_add(VolumeMIN, VolumeMAX, raw, 1)
VolumeSub(raw) == BoundedU8_sub(VolumeMIN, VolumeMAX, raw, 1)
VolumePercent(raw) == percent_display(VolumeMIN, VolumeMAX, raw)

\* two f32 quotients are the same number
F32Eq(a, b) == ~a.nan /\ ~b.nan /\ a.num * b.den = b.num * a.den

\* the text the settings view shows for a scope: the one text there is sits
\* under the "Global Volume" label
Displayed(scope) == IF scope = "Global" THEN text ELSE NoText

\* this step is handle_volume_action's run of the frame (on another screen its
\* run condition is false and the system is skipped)
HandlerRuns ==
    /\ screen = "Settings"
    /\ "handle_volume_action" \notin ran
    /\ "handle_volume_action" \in ran'

\* this step processes an adjustment intent
IntentProcessed ==
    /\ HandlerRuns
    /\ interaction.kind = "Volume"

\* C4: AppPlugin::build leaves exactly one aggregate: global from_divisor_added(2)
\* = 5, shown as "50.0%"; soundtrack and sfx from_divisor_removed(DIFF) = 9 and
\* from_divisor_removed(DIFF / 2) = 8, distinct, within [0, 10] and nearer MAX
\* than the global level.
C4_InitialAggregate ==
    [][app = "new" /\ app' # "new" =>
          /\ app' = "running"
          /\ settings' = [global_volume_level |-> 5,
                          soundtrack_volume_level_relative |-> 9,
                          sfx_volume_level_relative |-> 8]
          /\ VolumePercent(settings'.global_volume_level) = "50.0%"
          /\ VolumePercent(settings'.soundtrack_volume_level_relative) = "90.0%"
          /\ \A sc \in Scopes :
                VolumeMIN <= Level(settings', sc) /\ Level(settings', sc) <= VolumeMAX
          /\ \A sc \in {"Soundtrack", "Sfx"} :
                VolumeMAX - Level(settings', sc) < VolumeMAX - Level(settings', "Global")
       ]_vars

\* the application right after build, before its first frame
C4_Witness ==
    /\ app = "running"
    /\ screen = "Title"
    /\ interaction = NoIntent
    /\ settings.global_volume_level = 5
    /\ settings.soundtrack_volume_level_relative = 9
    /\ settings.sfx_volume_level_relative = 8

\* C5: processing an intent (direction, scope) replaces the field the scope names
\* by add(1) of it for Up and sub(1) of it for Down, and leaves the other two
\* fields as they were.
C5_ScopedAdjustment ==
    [][IntentProcessed =>
          \A sc \in Scopes :
             Level(settings', sc) =
                IF sc # interaction.scope THEN Level(settings, sc)
                ELSE IF interaction.adjustment = "Up" THEN VolumeAdd(Level(settings, sc))
                ELSE VolumeSub(Level(settings, sc))
       ]_vars

\* C6: while the settings view is shown, the text of each of the three scopes is
\* percent_display() of that scope's level.
C6_DisplayedPercent ==
    (app = "running" /\ screen = "Settings") =>
       \A sc \in Scopes : Displayed(sc) = VolumePercent(Level(settings, sc))

C9_HandlerAfterRecordInput ==
    [][HandlerRuns => ("RecordInput" \in ran /\ "Update" \notin ran)]_vars

====
